---- MODULE Spec2Model ----
(***************************************************************************)
(* Model of the financial summarization tool:                              *)
(*   summarizer.py             Website (fetch, parse, title, description,  *)
(*                             denylist pass, empty-tag pass, get_text)    *)
(*   api_client.py             FinancialAnalystClient.summarize_content    *)
(*   summarization_service.py  FinancialSummarizationService               *)
(*                                                                         *)
(* A Python str is a sequence of character tokens; None and a str are kept *)
(* apart by Optional values: None == <<>>, Some(v) == <<v>>.               *)
(***************************************************************************)
EXTENDS Integers, Sequences, FiniteSets, TLC

VARIABLES
    website,      \* the Website object: [url, title, description, content]
    soup,         \* the tree BeautifulSoup parsed in the last successful fetch
    tree,         \* the same tree after _clean_html has mutated it
    ret,          \* what the last extract_content call returned or raised
    calls,        \* extract_content calls made on the Website object
    response,     \* what the last GET met: [kind, status_code]
    pc,           \* position of the service call in progress
    request,      \* the service call: [op, arg, analysis_type]
    gets,         \* HTTP GETs issued during the service call
    completions,  \* summarize_content calls made during the service call
    sent,         \* arguments and messages of the last summarize_content call
    outcome,      \* what the completion service did in the last completion call
    client_ret,   \* what the client method returned or raised
    result,       \* what the service or client call returned or raised
    main_pc,      \* position of main
    env,          \* the environment: [OPENAI_API_KEY, OPENAI_TEMPERATURE]
    args,         \* the parsed command line
    logger,       \* main's local logger: "unbound" or "bound"
    api_client,   \* main's local api_client: "unbound" or "constructed"
    stderr,       \* the messages main printed to sys.stderr
    main_ret,     \* what main returned (the exit code) or raised
    failed,       \* a fetch or completion of this run has failed
    line          \* what the last input() of interactive mode gave

vars == <<website, soup, tree, ret, calls, response, pc, request, gets,
          completions, sent, outcome, client_ret, result, main_pc, env, args,
          logger, api_client, stderr, main_ret, failed, line>>

websiteVars == <<website, soup, tree, ret, calls, response>>
serviceVars == <<pc, request, gets, completions, sent, outcome, client_ret, result>>
appVars == <<main_pc, env, args, logger, api_client, stderr, main_ret, failed, line>>

----------------------------------------------------------------------------
(* Bounds *)

MaxNodes == 3     \* nodes (tags and strings) of a parsed document
SvcNodes == 2     \* nodes of the documents the service fetches
ReuseNodes == 1   \* nodes of the documents a reused Website object fetches
MaxCalls == 2     \* extract_content calls on one reused Website object

----------------------------------------------------------------------------
(* Python values *)

None == <<>>
Some(v) == <<v>>

Returned(v) == [exc |-> "none", value |-> v]
Raised(e) == [exc |-> e, value |-> None]

Whitespace == {" ", "\n"}

RECURSIVE lstrip(_)
lstrip(s) ==
    IF s # <<>> /\ Head(s) \in Whitespace THEN lstrip(Tail(s)) ELSE s

RECURSIVE rstrip(_)
rstrip(s) ==
    IF s # <<>> /\ s[Len(s)] \in Whitespace
    THEN rstrip(SubSeq(s, 1, Len(s) - 1))
    ELSE s

\* str.strip(): leading and trailing whitespace removed
strip(s) == rstrip(lstrip(s))

\* separator.join(strings)
RECURSIVE join(_, _)
join(sep, strings) ==
    IF strings = <<>> THEN <<>>
    ELSE IF Len(strings) = 1 THEN strings[1]
    ELSE strings[1] \o sep \o join(sep, Tail(strings))

Range(s) == {s[i] : i \in 1..Len(s)}

----------------------------------------------------------------------------
(* Parsed documents: what BeautifulSoup(response.content, "html.parser")   *)
(* builds.  A document is the sequence of its nodes in document order;     *)
(* node i names its parent (0 is the BeautifulSoup object itself).         *)

NoAttrs == [name |-> None, content |-> None]

String(t) == [kind |-> "text", name |-> "", attrs |-> NoAttrs, text |-> t]
Tag(n, a) == [kind |-> "tag", name |-> n, attrs |-> a, text |-> <<>>]

\* the strings a document may hold: whitespace only, and padded text
Texts == {<<" ">>, <<" ", "a", "\n">>}

MetaAttrs ==
    { [name |-> Some(<<"description">>), content |-> None],
      [name |-> Some(<<"description">>), content |-> Some(<<>>)],
      [name |-> Some(<<"description">>), content |-> Some(<<" ", "d", " ">>)],
      [name |-> Some(<<"keywords">>), content |-> Some(<<"k">>)] }

Labels ==
    {String(t) : t \in Texts}
    \cup {Tag(n, NoAttrs) : n \in {"div", "nav", "script", "title"}}
    \cup {Tag("meta", a) : a \in MetaAttrs}

\* html.parser: meta is a void element, script holds raw text only
CanContain(p, l) ==
    /\ p.kind = "tag"
    /\ p.name # "meta"
    /\ p.name = "script" => l.kind = "text"

RECURSIVE AncestorsOrSelf(_, _)
AncestorsOrSelf(d, i) ==
    IF i = 0 THEN {0} ELSE {i} \cup AncestorsOrSelf(d, d[i].parent)

ChildrenOf(d, p) == {i \in 1..Len(d) : d[i].parent = p}

LastChildIsString(d, p) ==
    LET kids == ChildrenOf(d, p)
    IN  kids # {} /\ d[CHOOSE i \in kids : \A j \in kids : j <= i].kind = "text"

\* the nodes that can follow document d in document order: a child of the
\* node just parsed or of one of its open ancestors; the parser merges
\* adjacent strings, so a string never follows a string under one parent
Extensions(d) ==
    UNION { { Append(d, [parent |-> p] @@ l) :
                l \in { x \in Labels :
                          /\ p # 0 => CanContain(d[p], x)
                          /\ x.kind = "text" => ~LastChildIsString(d, p) } } :
            p \in AncestorsOrSelf(d, Len(d)) }

RECURSIVE DocsOfSize(_)
DocsOfSize(n) ==
    IF n = 0 THEN {<<>>}
    ELSE UNION {Extensions(d) : d \in DocsOfSize(n - 1)}

Docs(n) == UNION {DocsOfSize(k) : k \in 0..n}

NoParent == -1

RECURSIVE SortedSeq(_)
SortedSeq(S) ==
    IF S = {} THEN <<>>
    ELSE LET m == CHOOSE i \in S : \A j \in S : i <= j
         IN  <<m>> \o SortedSeq(S \ {m})

\* BeautifulSoup(markup, "html.parser"): the tree as the object graph bs4
\* keeps, each node with its .contents and .parent
BeautifulSoup(d) ==
    [ nodes |-> d,
      contents |-> [p \in 0..Len(d) |-> SortedSeq(ChildrenOf(d, p))],
      parent |-> [i \in 1..Len(d) |-> d[i].parent] ]

NoSoup == BeautifulSoup(<<>>)

----------------------------------------------------------------------------
(* bs4 operations *)

RECURSIVE descendants(_, _)
RECURSIVE descendantsOfAll(_, _)
\* Tag.descendants: every node below n, in document order
descendants(t, n) == descendantsOfAll(t, t.contents[n])
descendantsOfAll(t, kids) ==
    IF kids = <<>> THEN <<>>
    ELSE <<Head(kids)>> \o descendants(t, Head(kids))
         \o descendantsOfAll(t, Tail(kids))

IsTag(t, i) == t.nodes[i].kind = "tag"

\* soup.find_all(name)
find_all(t, name) ==
    SelectSeq(descendants(t, 0), LAMBDA i : IsTag(t, i) /\ t.nodes[i].name = name)

\* soup.find_all(): every tag
find_all_tags(t) ==
    SelectSeq(descendants(t, 0), LAMBDA i : IsTag(t, i))

\* soup.find(name): the first match or None
find(t, name) ==
    LET all == find_all(t, name)
    IN  IF all = <<>> THEN None ELSE Some(Head(all))

\* soup.find(name, attrs={"name": value})
find_by_name_attr(t, name, value) ==
    LET all == SelectSeq(find_all(t, name),
                         LAMBDA i : t.nodes[i].attrs.name = Some(value))
    IN  IF all = <<>> THEN None ELSE Some(Head(all))

\* PageElement._all_strings(strip): the strings below n; with strip, each one
\* stripped and the ones left empty skipped
all_strings(t, n, stripped) ==
    LET strs == SelectSeq(descendants(t, n), LAMBDA i : ~IsTag(t, i))
        raw == [k \in 1..Len(strs) |-> t.nodes[strs[k]].text]
    IN  IF stripped
        THEN SelectSeq([k \in 1..Len(raw) |-> strip(raw[k])], LAMBDA s : s # <<>>)
        ELSE raw

\* PageElement.get_text(separator, strip)
get_text(t, n, separator, stripped) == join(separator, all_strings(t, n, stripped))

RECURSIVE string(_, _)
\* Tag.string: the single string child, looked for through single children
string(t, n) ==
    IF Len(t.contents[n]) # 1 THEN None
    ELSE LET child == t.contents[n][1]
         IN  IF IsTag(t, child) THEN string(t, child)
             ELSE Some(t.nodes[child].text)

\* PageElement.extract(): unlink n from its parent
extract(t, n) ==
    IF t.parent[n] = NoParent THEN t
    ELSE [t EXCEPT !.contents[t.parent[n]] =
                       SelectSeq(@, LAMBDA i : i # n),
                   !.parent[n] = NoParent]

\* Tag.decompose(): extract n, then clear n and everything below it
decompose(t, n) ==
    LET gone == {n} \cup Range(descendants(t, n))
        u == extract(t, n)
    IN  [u EXCEPT !.contents = [p \in DOMAIN @ |-> IF p \in gone THEN <<>> ELSE @[p]],
                  !.parent = [i \in DOMAIN @ |-> IF i \in gone THEN NoParent ELSE @[i]]]

----------------------------------------------------------------------------
(* summarizer.py: class Website *)

Urls == {<<"example.com/a">>, <<"https", ":", "//example.com/a">>}

\* urlparse(url).scheme: the part before the first ":", "" when there is none
scheme(url) == IF Len(url) >= 2 /\ url[2] = ":" THEN url[1] ELSE ""

\* Website.__init__
Website(url) ==
    [ url |-> IF scheme(url) = "" THEN <<"http", ":", "//">> \o url ELSE url,
      title |-> <<>>,
      description |-> <<>>,
      content |-> <<>> ]

NoTitle == <<"No Title">>
NoDescription == <<"No Description">>

\* Website._get_title; a Tag is always truthy, and None.strip() raises
_get_title(t) ==
    LET title == find(t, "title")
    IN  IF title # None
        THEN LET s == string(t, title[1])
             IN  IF s = None THEN Raised("AttributeError")
                 ELSE Returned(strip(s[1]))
        ELSE Returned(NoTitle)

\* mutant of _get_description: a content attribute must be non-empty to count
_get_description_nonempty(t) ==
    LET description_tag == find_by_name_attr(t, "meta", <<"description">>)
    IN  IF description_tag # None
           /\ t.nodes[description_tag[1]].attrs.content \notin {None, Some(<<>>)}
        THEN t.nodes[description_tag[1]].attrs.content[1]
        ELSE NoDescription

\* Website._get_description
_get_description(t) ==
    LET description_tag == find_by_name_attr(t, "meta", <<"description">>)
    IN  IF description_tag # None
           /\ t.nodes[description_tag[1]].attrs.content # None
        THEN strip(t.nodes[description_tag[1]].attrs.content[1])
        ELSE NoDescription

\* mutant of unwanted_tags: nav missing from the list
unwanted_tags_without_nav ==
    << "script", "style", "noscript", "iframe", "ad", "img", "form",
       "aside", "link", "button", "figure", "input" >>

unwanted_tags ==
    << "script", "style", "noscript", "iframe", "ad", "img", "form", "nav",
       "aside", "link", "button", "figure", "input" >>

RECURSIVE decompose_each(_, _)
\* for element in elements: element.decompose()
decompose_each(t, elements) ==
    IF elements = <<>> THEN t
    ELSE decompose_each(decompose(t, Head(elements)), Tail(elements))

RECURSIVE remove_unwanted(_, _)
\* for tag in unwanted_tags: for element in soup.find_all(tag): decompose
remove_unwanted(t, tags) ==
    IF tags = <<>> THEN t
    ELSE remove_unwanted(decompose_each(t, find_all(t, Head(tags))), Tail(tags))

\* mutant of is_empty_tag: get_text() without strip=True
is_empty_tag_unstripped(t, element) == get_text(t, element, <<>>, FALSE) = <<>>

\* if not element.get_text(strip=True)
is_empty_tag(t, element) == get_text(t, element, <<>>, TRUE) = <<>>

RECURSIVE remove_empty(_, _)
\* for element in soup.find_all(): if not element.get_text(strip=True):
\*     element.decompose()      (the list is built before the loop runs)
remove_empty(t, elements) ==
    IF elements = <<>> THEN t
    ELSE remove_empty(IF is_empty_tag(t, Head(elements))
                      THEN decompose(t, Head(elements)) ELSE t,
                      Tail(elements))

\* mutant of soup_text: get_text without strip=True
soup_text_unstripped(t) == get_text(t, 0, <<"\n">>, FALSE)

\* soup.get_text(separator="\n", strip=True)
soup_text(t) == get_text(t, 0, <<"\n">>, TRUE)

\* Website._clean_html: the soup as the two passes leave it, and its text
_clean_html(t) ==
    LET u == remove_unwanted(t, unwanted_tags)
        v == remove_empty(u, find_all_tags(u))
    IN  [tree |-> v, text |-> soup_text(v)]

\* a 300 response is no redirect to follow: requests hands it back as it is
StatusCodes == {200, 300, 404}

\* what requests.get meets: a RequestException (transport error), an
\* interrupt from the keyboard, or a response
Responses(n) ==
    {[kind |-> k, status_code |-> 0, doc |-> <<>>] :
        k \in {"RequestException", "KeyboardInterrupt"}}
    \cup {[kind |-> "response", status_code |-> c, doc |-> d] :
            c \in StatusCodes, d \in Docs(n)}

\* mutant of raises_for_status: the status is never looked at
raises_for_no_status(r) == FALSE

\* Response.raise_for_status: HTTPError for a 4xx or 5xx status
raises_for_status(r) == r.status_code >= 400 /\ r.status_code < 600

\* mutant of extract_content: a failed fetch clears the fields
extract_content_clearing(self, r) ==
    IF r.kind = "KeyboardInterrupt"
    THEN [self |-> self, soup |-> NoSoup, tree |-> NoSoup, parsed |-> FALSE,
          ret |-> Raised("KeyboardInterrupt")]
    ELSE IF r.kind = "RequestException" \/ raises_for_status(r)
    THEN [self |-> [self EXCEPT !.title = <<>>, !.description = <<>>,
                                !.content = <<>>],
          soup |-> NoSoup, tree |-> NoSoup, parsed |-> FALSE,
          ret |-> Returned(Some(<<>>))]
    ELSE LET t == BeautifulSoup(r.doc)
             title == _get_title(t)
             cleaned == _clean_html(t)
         IN  IF title.exc # "none"
             THEN [self |-> self, soup |-> t, tree |-> t, parsed |-> TRUE,
                   ret |-> title]
             ELSE [self |-> [self EXCEPT !.title = title.value,
                                         !.description = _get_description(t),
                                         !.content = cleaned.text],
                   soup |-> t, tree |-> cleaned.tree, parsed |-> TRUE,
                   ret |-> Returned(Some(cleaned.text))]

\* Website.extract_content on object self when the GET meets response r:
\* the object, the parsed and the cleaned soup, and what the call returns
extract_content(self, r) ==
    IF r.kind = "KeyboardInterrupt"
    THEN [self |-> self, soup |-> NoSoup, tree |-> NoSoup, parsed |-> FALSE,
          ret |-> Raised("KeyboardInterrupt")]
    ELSE IF r.kind = "RequestException" \/ raises_for_status(r)
    THEN [self |-> self, soup |-> NoSoup, tree |-> NoSoup, parsed |-> FALSE,
          ret |-> Returned(Some(<<>>))]
    ELSE LET t == BeautifulSoup(r.doc)
             title == _get_title(t)
             cleaned == _clean_html(t)
         IN  IF title.exc # "none"
             THEN [self |-> self, soup |-> t, tree |-> t, parsed |-> TRUE,
                   ret |-> title]
             ELSE [self |-> [self EXCEPT !.title = title.value,
                                         !.description = _get_description(t),
                                         !.content = cleaned.text],
                   soup |-> t, tree |-> cleaned.tree, parsed |-> TRUE,
                   ret |-> Returned(Some(cleaned.text))]

----------------------------------------------------------------------------
(* api_client.py: FinancialAnalystClient.summarize_content *)

AnalysisTypes == {"summary", "key_points", "action_items", "risks"}

\* the analysis types a caller may pass: the four known ones and others
AnalysisInputs == AnalysisTypes \cup {"other", ""}

prompts ==
    [ t \in AnalysisTypes |->
        CASE t = "summary" ->
               "You are provided with a cleaned up financial news article. Please summarize the key points and implications for investors."
          [] t = "key_points" ->
               "Extract and list the top 5 key points from this financial article that investors should know about."
          [] t = "action_items" ->
               "Based on this financial article, what actionable items should investors consider? List them clearly."
          [] t = "risks" ->
               "Identify and explain the key risks mentioned or implied in this financial article for investors." ]

\* mutant of system_prompt: no fallback to the summary prompt
system_prompt_no_default(analysis_type) ==
    IF analysis_type \in DOMAIN prompts THEN prompts[analysis_type] ELSE ""

\* prompts.get(analysis_type, prompts["summary"])
system_prompt(analysis_type) ==
    IF analysis_type \in DOMAIN prompts THEN prompts[analysis_type]
    ELSE prompts["summary"]

\* the messages handed to chat.completions.create
messages(content, analysis_type) ==
    << [role |-> "system",
        content |-> "You are a helpful assistant who is an expert financial analyst. "
                    \o system_prompt(analysis_type)],
       [role |-> "user",
        content |-> <<"Here is the content to analyze:\n\n">> \o content] >>

\* Python's exception classes, each with its base class
BaseOf ==
    [ e \in {"RateLimitError", "APIError", "IndexError", "AttributeError",
             "ValueError", "EOFError", "UnboundLocalError",
             "Exception", "KeyboardInterrupt", "BaseException"} |->
        CASE e = "RateLimitError" -> "APIError"
          [] e = "ValueError" -> "Exception"
          [] e = "EOFError" -> "Exception"
          [] e = "UnboundLocalError" -> "Exception"
          [] e = "APIError" -> "Exception"
          [] e = "IndexError" -> "Exception"
          [] e = "AttributeError" -> "Exception"
          [] e = "Exception" -> "BaseException"
          [] e = "KeyboardInterrupt" -> "BaseException"
          [] e = "BaseException" -> "BaseException" ]

RECURSIVE isinstance(_, _)
isinstance(e, class) ==
    \/ e = class
    \/ e # "BaseException" /\ isinstance(BaseOf[e], class)

\* a try statement's except clauses: TRUE when one of them catches e
caught(e, clauses) == \E k \in 1..Len(clauses) : isinstance(e, clauses[k])

\* what chat.completions.create and the read of choices[0].message.content
\* can do: give a text, give no content, or raise
CompletionOutcomes ==
    {[kind |-> "text", text |-> x] : x \in {<<"s">>, <<" ", "s", "\n">>, <<>>}}
    \cup {[kind |-> k, text |-> <<>>] :
            k \in {"no_content", "RateLimitError", "APIError", "IndexError",
                   "KeyboardInterrupt"}}

\* mutant of client_handlers: the catch-all clause left out
client_handlers_api_only == <<"RateLimitError", "APIError">>

\* except RateLimitError / except APIError / except Exception: return None
client_handlers == <<"RateLimitError", "APIError", "Exception">>

\* FinancialAnalystClient.summarize_content under outcome o
summarize_content(content, analysis_type, o) ==
    CASE o.kind = "text" -> Returned(Some(o.text))
      [] o.kind = "no_content" -> Returned(None)
      [] OTHER -> IF caught(o.kind, client_handlers) THEN Returned(None)
                  ELSE Raised(o.kind)

----------------------------------------------------------------------------
(* summarization_service.py: FinancialSummarizationService *)

\* mutant of blank: the whitespace test left out
blank_unstripped(v) == v = None \/ v[1] = <<>>

\* not content or content.strip() == ""
blank(v) == v = None \/ v[1] = <<>> \/ strip(v[1]) = <<>>

\* except Exception as e: return None
service_handlers == <<"Exception">>

\* mutant of service_try: a falsy result is turned into None
service_try_truthy(r) ==
    IF r.exc # "none" /\ caught(r.exc, service_handlers) THEN Returned(None)
    ELSE IF r.exc = "none" /\ r.value # None /\ r.value[1] = <<>> THEN Returned(None)
    ELSE r

\* the try statement around a service method's body: what the method gives
\* when its body gives r
service_try(r) ==
    IF r.exc # "none" /\ caught(r.exc, service_handlers) THEN Returned(None)
    ELSE r

InputTexts == {<<>>, <<" ">>, <<"\n", " ">>, <<"a">>, <<" ", "a", " ">>}

NoRequest == [op |-> "none", arg |-> <<>>, analysis_type |-> ""]
NoCall == [content |-> <<>>, analysis_type |-> "", system_prompt |-> "",
           messages |-> <<>>]
NoResponse == [kind |-> "none", status_code |-> 0]
NoOutcome == [kind |-> "none", text |-> <<>>]
met(r) == [kind |-> r.kind, status_code |-> r.status_code]
Pending == [exc |-> "pending", value |-> None]

----------------------------------------------------------------------------
(* State machine *)

NoWebsite == [url |-> <<>>, title |-> <<>>, description |-> <<>>, content |-> <<>>]
NoEnv == [OPENAI_API_KEY |-> None, OPENAI_TEMPERATURE |-> None]
NoArgs == [url |-> None, type |-> "", websites |-> FALSE, topic |-> <<>>,
           ask |-> None, text |-> None, interactive |-> FALSE, debug |-> FALSE]
NoLine == [exc |-> "pending", value |-> None]

Init ==
    /\ website = NoWebsite
    /\ soup = NoSoup
    /\ tree = NoSoup
    /\ ret = Pending
    /\ calls = 0
    /\ response = NoResponse
    /\ pc = "idle"
    /\ request = NoRequest
    /\ gets = 0
    /\ completions = 0
    /\ sent = NoCall
    /\ outcome = NoOutcome
    /\ client_ret = Pending
    /\ result = Pending
    /\ main_pc = "start"
    /\ env = NoEnv
    /\ args = NoArgs
    /\ logger = "unbound"
    /\ api_client = "unbound"
    /\ stderr = <<>>
    /\ main_ret = Pending
    /\ failed = FALSE
    /\ line = NoLine

\* website = Website(url)
Construct ==
    /\ \E url \in Urls : website' = Website(url)
    /\ soup' = NoSoup
    /\ tree' = NoSoup
    /\ ret' = Pending
    /\ calls' = 0
    /\ response' = NoResponse
    /\ UNCHANGED serviceVars
    /\ UNCHANGED appVars

\* website.extract_content(), the first call on the object
ExtractContent ==
    /\ website # NoWebsite
    /\ calls = 0
    /\ \E r \in Responses(MaxNodes) :
         \E out \in {extract_content(website, r)} :
             /\ website' = out.self
             /\ soup' = out.soup
             /\ tree' = out.tree
             /\ ret' = out.ret
             /\ response' = met(r)
    /\ calls' = calls + 1
    /\ UNCHANGED serviceVars
    /\ UNCHANGED appVars

NextExtract == Construct \/ ExtractContent

SpecExtract == Init /\ [][NextExtract]_vars

\* website.extract_content(), the first or a later call on the object
ExtractContentAgain ==
    /\ website # NoWebsite
    /\ calls < MaxCalls
    /\ \E r \in Responses(ReuseNodes) :
         \E out \in {extract_content(website, r)} :
             /\ website' = out.self
             /\ soup' = out.soup
             /\ tree' = out.tree
             /\ ret' = out.ret
             /\ response' = met(r)
    /\ calls' = calls + 1
    /\ UNCHANGED serviceVars
    /\ UNCHANGED appVars

NextReuse == Construct \/ ExtractContentAgain

SpecReuse == Init /\ [][NextReuse]_vars

\* service.summarize_article_from_url(article_url, analysis_type) is entered:
\* website = Website(article_url)
EnterSummarizeArticleFromUrl(article_url, analysis_type) ==
    /\ request' = [op |-> "url", arg |-> article_url,
                   analysis_type |-> analysis_type]
    /\ website' = Website(article_url)
    /\ pc' = "extract"
    /\ ret' = Pending
    /\ gets' = 0
    /\ completions' = 0
    /\ sent' = NoCall
    /\ outcome' = NoOutcome
    /\ client_ret' = Pending
    /\ result' = Pending
    /\ calls' = 0
    /\ response' = NoResponse
    /\ UNCHANGED <<soup, tree>>

\* a caller outside main calls service.summarize_article_from_url
CallSummarizeArticleFromUrl ==
    /\ pc = "idle"
    /\ \E url \in Urls, analysis_type \in AnalysisInputs :
         EnterSummarizeArticleFromUrl(url, analysis_type)
    /\ UNCHANGED appVars

\* mutant of FetchAndExtract: an extraction that gave nothing is tried once more
FetchAndExtractRetrying ==
    /\ pc = "extract"
    /\ \E r \in Responses(SvcNodes) :
         \E out \in {extract_content(website, r)} :
             /\ website' = out.self
             /\ ret' = out.ret
             /\ response' = met(r)
             /\ IF out.ret.exc # "none"
                THEN /\ result' = service_try(out.ret)
                     /\ pc' = "done"
                ELSE IF blank(out.ret.value)
                THEN /\ result' = IF gets = 0 THEN result ELSE Returned(None)
                     /\ pc' = IF gets = 0 THEN "extract" ELSE "done"
                ELSE /\ result' = result
                     /\ pc' = "complete"
    /\ gets' = gets + 1
    /\ calls' = calls + 1
    /\ UNCHANGED <<soup, tree, request, completions, sent, outcome, client_ret>>
    /\ UNCHANGED appVars

\* content = website.extract_content(), then the blank check: the method
\* returns None on blank content and on an Exception, else goes on to the
\* completion call.  The soup is local to extract_content and not kept.
FetchAndExtract ==
    /\ pc = "extract"
    /\ \E r \in Responses(SvcNodes) :
         \E out \in {extract_content(website, r)} :
             /\ website' = out.self
             /\ ret' = out.ret
             /\ response' = met(r)
             /\ IF out.ret.exc # "none"
                THEN /\ result' = service_try(out.ret)
                     /\ pc' = "done"
                ELSE IF blank(out.ret.value)
                THEN /\ result' = Returned(None)
                     /\ pc' = "done"
                ELSE /\ result' = result
                     /\ pc' = "complete"
    /\ gets' = gets + 1
    /\ calls' = calls + 1
    /\ UNCHANGED <<soup, tree, request, completions, sent, outcome, client_ret>>
    /\ UNCHANGED appVars

\* service.summarize_text(text, analysis_type) is entered, with its blank check
EnterSummarizeText(text, analysis_type) ==
    /\ request' = [op |-> "text", arg |-> text, analysis_type |-> analysis_type]
    /\ IF blank(Some(text))
       THEN /\ result' = Returned(None)
            /\ pc' = "done"
       ELSE /\ result' = Pending
            /\ pc' = "complete"
    /\ website' = NoWebsite
    /\ ret' = Pending
    /\ gets' = 0
    /\ completions' = 0
    /\ sent' = NoCall
    /\ outcome' = NoOutcome
    /\ client_ret' = Pending
    /\ calls' = 0
    /\ response' = NoResponse
    /\ UNCHANGED <<soup, tree>>

\* a caller outside main calls service.summarize_text
CallSummarizeText ==
    /\ pc = "idle"
    /\ \E text \in InputTexts, analysis_type \in AnalysisInputs :
         EnterSummarizeText(text, analysis_type)
    /\ UNCHANGED appVars

\* the content a service method hands to the completion client
content_to_analyze ==
    IF request.op = "url" THEN ret.value[1] ELSE request.arg

\* result = self.api_client.summarize_content(content, analysis_type);
\* return result
Complete ==
    /\ pc = "complete"
    /\ \E o \in CompletionOutcomes :
         LET r == summarize_content(content_to_analyze, request.analysis_type, o)
         IN  /\ outcome' = o
             /\ client_ret' = r
             /\ result' = service_try(r)
    /\ sent' = [content |-> content_to_analyze,
                analysis_type |-> request.analysis_type,
                system_prompt |-> system_prompt(request.analysis_type),
                messages |-> messages(content_to_analyze, request.analysis_type)]
    /\ completions' = completions + 1
    /\ pc' = "done"
    /\ UNCHANGED <<website, soup, tree, ret, calls, response, request, gets>>
    /\ UNCHANGED appVars

\* the caller has the result; the service is ready for the next call
Return ==
    /\ pc = "done"
    /\ pc' = "idle"
    /\ UNCHANGED <<website, soup, tree, ret, calls, response, request, gets,
                   completions, sent, outcome, client_ret, result>>
    /\ UNCHANGED appVars

Next ==
    \/ CallSummarizeArticleFromUrl
    \/ FetchAndExtract
    \/ CallSummarizeText
    \/ Complete
    \/ Return

Spec == Init /\ [][Next]_vars

----------------------------------------------------------------------------
(* config.py: load_config; api_client.py: the other two client methods *)

ApiKeys == {None, Some(<<>>), Some(<<"sk-1">>)}
Temperatures == {None, Some(<<"0.7">>), Some(<<"warm">>)}

\* the environment after load_dotenv
Envs == [OPENAI_API_KEY : ApiKeys, OPENAI_TEMPERATURE : Temperatures]

\* os.getenv(name, default)
getenv(e, name, default) == IF e[name] = None THEN default ELSE e[name][1]

\* float(s), in tenths: ValueError when s is not a number
float(s) ==
    IF s = <<"0.7">> THEN Returned(Some(7)) ELSE Raised("ValueError")

\* load_config: ValueError when the API key is missing or empty, or when
\* the temperature is not a number; else the configuration
load_config(e) ==
    IF e.OPENAI_API_KEY = None \/ e.OPENAI_API_KEY[1] = <<>>
    THEN Raised("ValueError")
    ELSE LET temperature == float(getenv(e, "OPENAI_TEMPERATURE", <<"0.7">>))
         IN  IF temperature.exc # "none" THEN temperature
             ELSE Returned(Some([temperature |-> temperature.value[1]]))

\* FinancialAnalystClient.get_website_recommendations under outcome o
get_website_recommendations(topic, o) ==
    CASE o.kind = "text" -> Returned(Some(o.text))
      [] o.kind = "no_content" -> Returned(None)
      [] OTHER -> IF caught(o.kind, client_handlers) THEN Returned(None)
                  ELSE Raised(o.kind)

\* FinancialAnalystClient.ask_question under outcome o
ask_question(question, o) ==
    CASE o.kind = "text" -> Returned(Some(o.text))
      [] o.kind = "no_content" -> Returned(None)
      [] OTHER -> IF caught(o.kind, client_handlers) THEN Returned(None)
                  ELSE Raised(o.kind)

\* the messages get_website_recommendations hands to chat.completions.create
recommendation_messages(topic) ==
    << [role |-> "system",
        content |-> "You are a helpful assistant who is an expert financial analyst."],
       [role |-> "user",
        content |-> <<"Provide some good websites for financial information pertaining to the ">>
                    \o topic] >>

\* the messages ask_question hands to chat.completions.create (no context)
question_messages(question) ==
    << [role |-> "system",
        content |-> "You are a helpful assistant who is an expert financial analyst. Provide clear, actionable advice."],
       [role |-> "user", content |-> question] >>

\* api_client.get_website_recommendations(topic) or
\* api_client.ask_question(question) is entered
EnterClient(op, arg) ==
    /\ request' = [op |-> op, arg |-> arg, analysis_type |-> ""]
    /\ pc' = "client"
    /\ website' = NoWebsite
    /\ ret' = Pending
    /\ gets' = 0
    /\ completions' = 0
    /\ sent' = NoCall
    /\ outcome' = NoOutcome
    /\ client_ret' = Pending
    /\ result' = Pending
    /\ calls' = 0
    /\ response' = NoResponse
    /\ UNCHANGED <<soup, tree>>

\* the client method's one completion call and its return
ClientCall ==
    /\ pc = "client"
    /\ \E o \in CompletionOutcomes :
         LET r == IF request.op = "websites"
                  THEN get_website_recommendations(request.arg, o)
                  ELSE ask_question(request.arg, o)
         IN  /\ outcome' = o
             /\ client_ret' = r
             /\ result' = r
    /\ sent' = [content |-> request.arg,
                analysis_type |-> "",
                system_prompt |-> "",
                messages |-> IF request.op = "websites"
                             THEN recommendation_messages(request.arg)
                             ELSE question_messages(request.arg)]
    /\ completions' = completions + 1
    /\ pc' = "done"
    /\ UNCHANGED <<website, soup, tree, ret, calls, response, request, gets>>
    /\ UNCHANGED appVars

\* main ends after the call: the call's result stays as it was returned
KeepCall ==
    /\ pc' = "idle"
    /\ UNCHANGED <<website, soup, tree, ret, calls, response, request, gets,
                   completions, sent, outcome, client_ret, result>>

\* the loop goes on after the call: the call's frame is gone, its locals are
\* no longer reachable
ForgetCall ==
    /\ pc' = "idle"
    /\ request' = NoRequest
    /\ website' = NoWebsite
    /\ ret' = Pending
    /\ gets' = 0
    /\ completions' = 0
    /\ sent' = NoCall
    /\ outcome' = NoOutcome
    /\ client_ret' = Pending
    /\ result' = Pending
    /\ calls' = 0
    /\ response' = NoResponse
    /\ UNCHANGED <<soup, tree>>

----------------------------------------------------------------------------
(* basic_summarization.py: main and run_demo *)

\* the command lines argparse accepts (--type is one of its choices)
ArgsSet ==
    [ url : {None, Some(<<"example.com/a">>)},
      type : {"summary", "risks"},
      websites : BOOLEAN,
      topic : {<<"stock market">>},
      ask : {None, Some(<<"q">>)},
      text : {None, Some(<<"a">>), Some(<<" ">>)},
      interactive : BOOLEAN,
      debug : BOOLEAN ]

\* Python's truth value of an Optional[str]
truthy(v) == v # None /\ v[1] # <<>>

\* the branch of main's if/elif chain that args select
mode(a) ==
    IF a.websites THEN "websites"
    ELSE IF truthy(a.url) THEN "url"
    ELSE IF truthy(a.ask) THEN "ask"
    ELSE IF truthy(a.text) THEN "text"
    ELSE IF a.interactive THEN "interactive"
    ELSE "demo"

\* a use of main's local logger in a handler or at the end of main
logger_use(lg, r) == IF lg = "unbound" THEN Raised("UnboundLocalError") ELSE r

\* main's try statement: what main gives, and what it prints to stderr, when
\* the body of the try gives r and the local logger is lg
main_try(r, lg) ==
    IF r.exc = "none"
    THEN [ret |-> r, err |-> <<>>]
    ELSE IF isinstance(r.exc, "ValueError")
    THEN [ret |-> logger_use(lg, Returned(Some(1))),
          err |-> <<"Configuration Error">>]
    ELSE IF isinstance(r.exc, "KeyboardInterrupt")
    THEN [ret |-> logger_use(lg, Returned(Some(0))), err |-> <<>>]
    ELSE IF isinstance(r.exc, "Exception")
    THEN [ret |-> logger_use(lg, Returned(Some(1))),
          err |-> <<"Unexpected Error">>]
    ELSE [ret |-> r, err |-> <<>>]

\* a step of main that ends main with what its try statement gives for r
MainEnds(r) ==
    LET out == main_try(r, logger)
    IN  /\ main_ret' = out.ret
        /\ stderr' = stderr \o out.err
        /\ main_pc' = "exited"

\* the call that has just returned met a failed fetch or a failed completion
CallFailed ==
    \/ response.kind = "RequestException"
    \/ response.kind = "response" /\ raises_for_status(response)
    \/ outcome.kind \in {"RateLimitError", "APIError", "IndexError"}

\* args = parser.parse_args(), in the environment load_dotenv left
MainStart ==
    /\ main_pc = "start"
    /\ \E e \in Envs, a \in ArgsSet :
         /\ env' = e
         /\ args' = a
    /\ main_pc' = "config"
    /\ UNCHANGED <<logger, api_client, stderr, main_ret, failed, line>>
    /\ UNCHANGED websiteVars
    /\ UNCHANGED serviceVars

\* config = load_config(); logger = setup_logging(...);
\* api_client = FinancialAnalystClient(...); service = ...
\* or the handler of the exception load_config raised
LoadConfig ==
    /\ main_pc = "config"
    /\ LET config == load_config(env)
       IN  IF config.exc = "none"
           THEN /\ logger' = "bound"
                /\ api_client' = "constructed"
                /\ main_pc' = "dispatch"
                /\ UNCHANGED <<stderr, main_ret>>
           ELSE /\ MainEnds(config)
                /\ UNCHANGED <<logger, api_client>>
    /\ UNCHANGED <<env, args, failed, line>>
    /\ UNCHANGED websiteVars
    /\ UNCHANGED serviceVars

\* if args.websites: result = api_client.get_website_recommendations(args.topic)
MainWebsites ==
    /\ main_pc = "dispatch"
    /\ mode(args) = "websites"
    /\ EnterClient("websites", args.topic)
    /\ main_pc' = "call"
    /\ UNCHANGED <<env, args, logger, api_client, stderr, main_ret, failed, line>>

\* elif args.url: result = service.summarize_article_from_url(args.url, args.type)
MainUrl ==
    /\ main_pc = "dispatch"
    /\ mode(args) = "url"
    /\ EnterSummarizeArticleFromUrl(args.url[1], args.type)
    /\ main_pc' = "call"
    /\ UNCHANGED <<env, args, logger, api_client, stderr, main_ret, failed, line>>

\* elif args.ask: result = api_client.ask_question(args.ask)
MainAsk ==
    /\ main_pc = "dispatch"
    /\ mode(args) = "ask"
    /\ EnterClient("ask", args.ask[1])
    /\ main_pc' = "call"
    /\ UNCHANGED <<env, args, logger, api_client, stderr, main_ret, failed, line>>

\* elif args.text: result = service.summarize_text(args.text, args.type)
MainText ==
    /\ main_pc = "dispatch"
    /\ mode(args) = "text"
    /\ EnterSummarizeText(args.text[1], args.type)
    /\ main_pc' = "call"
    /\ UNCHANGED <<env, args, logger, api_client, stderr, main_ret, failed, line>>

\* what the body of main's try gives once the call of a one-action mode has
\* given r: the exception, return 1 on a falsy result, else the final return 0
main_after_call(r) ==
    IF r.exc # "none" THEN r
    ELSE IF truthy(r.value) THEN Returned(Some(0))
    ELSE Returned(Some(1))

\* if result: print(result) / else: print("Failed ..."); return 1, then
\* logger.info(...); return 0, and the handlers of main
MainCallReturns ==
    /\ main_pc = "call"
    /\ pc = "done"
    /\ MainEnds(main_after_call(result))
    /\ failed' = (failed \/ CallFailed)
    /\ KeepCall
    /\ UNCHANGED <<env, args, logger, api_client, line>>

\* the article run_demo summarizes
article_url ==
    <<"https", ":", "//finance.yahoo.com/news/inflation-in-focus-as-september-fed-meeting-nears-what-to-watch-this-week-120006808.html">>

\* else: run_demo(...), up to result = api_client.get_website_recommendations()
MainDemo ==
    /\ main_pc = "dispatch"
    /\ mode(args) = "demo"
    /\ EnterClient("websites", <<"stock market">>)
    /\ main_pc' = "demo_websites"
    /\ UNCHANGED <<env, args, logger, api_client, stderr, main_ret, failed, line>>

\* run_demo after the recommendations: on a falsy result it returns, and main
\* returns 0; else result = service.summarize_article_from_url(article_url)
DemoWebsitesReturn ==
    /\ main_pc = "demo_websites"
    /\ pc = "done"
    /\ failed' = (failed \/ CallFailed)
    /\ IF result.exc # "none"
       THEN /\ MainEnds(result)
            /\ KeepCall
       ELSE IF truthy(result.value)
       THEN /\ EnterSummarizeArticleFromUrl(article_url, "summary")
            /\ main_pc' = "demo_article"
            /\ UNCHANGED <<stderr, main_ret>>
       ELSE /\ MainEnds(Returned(Some(0)))
            /\ KeepCall
    /\ UNCHANGED <<env, args, logger, api_client, line>>

\* run_demo after the summary: it prints the result or the failure and
\* returns, and main returns 0
DemoArticleReturn ==
    /\ main_pc = "demo_article"
    /\ pc = "done"
    /\ failed' = (failed \/ CallFailed)
    /\ MainEnds(IF result.exc # "none" THEN result ELSE Returned(Some(0)))
    /\ KeepCall
    /\ UNCHANGED <<env, args, logger, api_client, line>>

----------------------------------------------------------------------------
(* basic_summarization.py: run_interactive_mode *)

\* str.lower, on the words the lines below are made of
lower_word(w) ==
    CASE w = "EXIT" -> "exit"
      [] w = "Summarize" -> "summarize"
      [] OTHER -> w

lower(s) == [i \in 1..Len(s) |-> lower_word(s[i])]

\* the leading run of s without whitespace
RECURSIVE first_word(_)
first_word(s) ==
    IF s = <<>> \/ Head(s) \in Whitespace THEN <<>>
    ELSE <<Head(s)>> \o first_word(Tail(s))

\* str.split(maxsplit=maxsplit): the words between runs of whitespace, the
\* rest of the string as the last part once maxsplit splits are done
RECURSIVE split(_, _)
split(s, maxsplit) ==
    LET t == lstrip(s)
    IN  IF t = <<>> THEN <<>>
        ELSE IF maxsplit = 0 THEN <<t>>
        ELSE <<first_word(t)>>
             \o split(SubSeq(t, Len(first_word(t)) + 1, Len(t)), maxsplit - 1)

\* the lines a user types
Lines ==
    { <<>>, <<" ">>,
      <<"exit">>, <<" ", "EXIT", "\n">>,
      <<"help">>,
      <<"summarize">>,
      <<"Summarize", " ", "example.com/a">>,
      <<"analyze">>,
      <<"analyze", " ", "example.com/a">>,
      <<"analyze", " ", " ", "example.com/a", " ", "risks">>,
      <<"analyze", " ", "example.com/a", " ", "bogus">>,
      <<"analyze", " ", "example.com/a", " ", "risks", " ", "now">>,
      <<"ask">>,
      <<"ask", " ", "q", " ", "r", " ", " ", "s">>,
      <<"websites">>,
      <<"websites", " ", "bonds">>,
      <<"bogus">>,
      <<"bogus", " ", "example.com/a">> }

\* what input("Enter command: ") gives: a line, or an exception
Inputs ==
    {Returned(Some(s)) : s \in Lines}
    \cup {Raised("KeyboardInterrupt"), Raised("EOFError")}

\* service.get_analysis_types()
get_analysis_types == <<"summary", "key_points", "action_items", "risks">>

\* mutant of valid_analysis_type: every type is let through
valid_analysis_type_any(analysis_type) == Len(analysis_type) >= 1

\* analysis_type in service.get_analysis_types()
valid_analysis_type(analysis_type) ==
    \E k \in 1..Len(get_analysis_types) : analysis_type = <<get_analysis_types[k]>>

NoCommand == [kind |-> "continue", arg |-> <<>>, analysis_type |-> ""]

\* one pass of the loop body from input() up to its first call: "break" when
\* the loop ends, "continue" when it goes back to the prompt without a call,
\* else the call it makes
parse_command(l) ==
    IF l.exc # "none"
    THEN IF isinstance(l.exc, "KeyboardInterrupt")
         THEN [NoCommand EXCEPT !.kind = "break"]
         ELSE IF isinstance(l.exc, "Exception") THEN NoCommand
         ELSE [NoCommand EXCEPT !.kind = "raise"]
    ELSE
    LET user_input == strip(l.value[1])
        parts == split(user_input, 2)
        command == lower(parts[1])
    IN  IF user_input = <<>> THEN NoCommand
        ELSE IF command = <<"exit">> THEN [NoCommand EXCEPT !.kind = "break"]
        ELSE IF command = <<"help">> THEN NoCommand
        ELSE IF command = <<"summarize">>
        THEN IF Len(parts) < 2 THEN NoCommand
             ELSE [kind |-> "url", arg |-> parts[2], analysis_type |-> "summary"]
        ELSE IF command = <<"analyze">>
        THEN IF Len(parts) < 2 THEN NoCommand
             ELSE LET analysis_type == IF Len(parts) > 2 THEN parts[3]
                                       ELSE <<"summary">>
                  IN  IF ~valid_analysis_type(analysis_type) THEN NoCommand
                      ELSE [kind |-> "url", arg |-> parts[2],
                            analysis_type |-> analysis_type[1]]
        ELSE IF command = <<"ask">>
        THEN IF Len(parts) < 2 THEN NoCommand
             ELSE [kind |-> "ask", arg |-> join(<<" ">>, Tail(parts)),
                   analysis_type |-> ""]
        ELSE IF command = <<"websites">>
        THEN [kind |-> "websites",
              arg |-> IF Len(parts) > 1 THEN parts[2] ELSE <<"stock market">>,
              analysis_type |-> ""]
        ELSE NoCommand

\* elif args.interactive: run_interactive_mode(api_client, service, logger)
MainInteractive ==
    /\ main_pc = "dispatch"
    /\ mode(args) = "interactive"
    /\ main_pc' = "prompt"
    /\ UNCHANGED <<env, args, logger, api_client, stderr, main_ret, failed, line>>
    /\ UNCHANGED websiteVars
    /\ UNCHANGED serviceVars

\* user_input = input("Enter command: ").strip() and the loop body up to its
\* call; a break ends run_interactive_mode, and main returns 0
ReadCommand ==
    /\ main_pc = "prompt"
    /\ pc = "idle"
    /\ \E l \in Inputs :
         LET c == parse_command(l)
         IN  /\ line' = l
             /\ CASE c.kind = "break" ->
                       /\ MainEnds(Returned(Some(0)))
                       /\ UNCHANGED websiteVars
                       /\ UNCHANGED serviceVars
                  [] c.kind = "raise" ->
                       /\ MainEnds(l)
                       /\ UNCHANGED websiteVars
                       /\ UNCHANGED serviceVars
                  [] c.kind = "continue" ->
                       /\ UNCHANGED <<main_pc, stderr, main_ret>>
                       /\ UNCHANGED websiteVars
                       /\ UNCHANGED serviceVars
                  [] c.kind = "url" ->
                       /\ EnterSummarizeArticleFromUrl(c.arg, c.analysis_type)
                       /\ main_pc' = "command"
                       /\ UNCHANGED <<stderr, main_ret>>
                  [] OTHER ->
                       /\ EnterClient(c.kind, c.arg)
                       /\ main_pc' = "command"
                       /\ UNCHANGED <<stderr, main_ret>>
    /\ UNCHANGED <<env, args, logger, api_client, failed>>

\* the command's call has returned: the loop prints the result or the
\* failure and goes back to the prompt; a KeyboardInterrupt out of the call
\* ends the loop, any other Exception is logged and the loop goes on
CommandReturns ==
    /\ main_pc = "command"
    /\ pc = "done"
    /\ failed' = (failed \/ CallFailed)
    /\ IF result.exc = "none"
       THEN /\ main_pc' = "prompt"
            /\ UNCHANGED <<stderr, main_ret>>
            /\ ForgetCall
       ELSE IF isinstance(result.exc, "KeyboardInterrupt")
       THEN /\ MainEnds(Returned(Some(0)))
            /\ KeepCall
       ELSE IF isinstance(result.exc, "Exception")
       THEN /\ main_pc' = "prompt"
            /\ UNCHANGED <<stderr, main_ret>>
            /\ ForgetCall
       ELSE /\ MainEnds(result)
            /\ KeepCall
    /\ UNCHANGED <<env, args, logger, api_client, line>>

NextMain ==
    \/ MainStart
    \/ LoadConfig
    \/ MainWebsites
    \/ MainUrl
    \/ MainAsk
    \/ MainText
    \/ MainInteractive
    \/ MainDemo
    \/ FetchAndExtract
    \/ Complete
    \/ ClientCall
    \/ MainCallReturns
    \/ DemoWebsitesReturn
    \/ DemoArticleReturn
    \/ ReadCommand
    \/ CommandReturns

SpecMain == Init /\ [][NextMain]_vars

----------------------------------------------------------------------------
(* Properties of the service and the completion client, under Spec *)

IsBlankText(s) == \A i \in 1..Len(s) : s[i] \in Whitespace

\* a service call has ended (its result is with the caller)
Ended(op) == request.op = op /\ pc \in {"done", "idle"}

\* C1: for every empty or whitespace-only text and every analysis type,
\* summarize_text returns None and summarize_content is never called
C1_BlankTextFails ==
    (Ended("text") /\ IsBlankText(request.arg))
        => (result = Returned(None) /\ completions = 0)

C1_Witness ==
    /\ Ended("text")
    /\ request.arg = <<"\n", " ">>
    /\ request.analysis_type = "risks"
    /\ result = Returned(None)
    /\ completions = 0

ExtractedBlank == ret.exc = "none" /\ ret.value # None /\ IsBlankText(ret.value[1])

\* C2 as stated: a transport error, any status outside 2xx, or blank
\* extracted content makes summarize_article_from_url return None without a
\* completion call
C2_NonTwoXXFails ==
    ( /\ Ended("url")
      /\ \/ response.kind = "RequestException"
         \/ response.kind = "response" /\ response.status_code \notin 200..299
         \/ ExtractedBlank )
        => (result = Returned(None) /\ completions = 0)

\* C2 amended: a transport error, a 4xx or 5xx status (what raise_for_status
\* raises for), or blank extracted content makes summarize_article_from_url
\* return None without a completion call
C2_FetchFailureFails ==
    ( /\ Ended("url")
      /\ \/ response.kind = "RequestException"
         \/ response.kind = "response" /\ response.status_code \in 400..599
         \/ ExtractedBlank )
        => (result = Returned(None) /\ completions = 0)

C2_Witness ==
    /\ Ended("url")
    /\ response.kind = "response"
    /\ response.status_code = 404
    /\ result = Returned(None)
    /\ completions = 0
    /\ gets = 1

\* C3: once the completion call is reached, the service returns exactly what
\* the client returned, and the client was handed exactly the extracted
\* content (or the given text) and the caller's analysis type
C3_PassThrough ==
    (pc \in {"done", "idle"} /\ completions > 0 /\ client_ret.exc = "none")
        => /\ result = client_ret
           /\ sent.analysis_type = request.analysis_type
           /\ request.op = "url" => sent.content = website.content
           /\ request.op = "text" => sent.content = request.arg

C3_Witness ==
    /\ Ended("url")
    /\ completions = 1
    /\ client_ret = Returned(Some(<<>>))
    /\ result = client_ret
    /\ sent.content = <<"a">>

\* C4: a rate limit, an API error or any other unexpected error of the
\* completion service makes the client return None, and the service return
\* None; no exception leaves the client or the service
C4_CompletionFailureIsNone ==
    ( /\ pc \in {"done", "idle"}
      /\ completions > 0
      /\ outcome.kind \in {"RateLimitError", "APIError", "IndexError"} )
        => (client_ret = Returned(None) /\ result = Returned(None))

C4_Witness ==
    /\ Ended("url")
    /\ completions = 1
    /\ outcome.kind = "IndexError"
    /\ client_ret = Returned(None)
    /\ result = Returned(None)

SystemPrefix == "You are a helpful assistant who is an expert financial analyst. "

\* C5: prompt composition is total: the system prompt is never empty, each of
\* the four analysis types selects its own prompt, and every other value
\* selects the prompt of summary
C5_PromptTotal ==
    completions > 0
        => /\ sent.system_prompt # ""
           /\ sent.analysis_type \in AnalysisTypes
                => sent.system_prompt = prompts[sent.analysis_type]
           /\ sent.analysis_type \notin AnalysisTypes
                => sent.system_prompt = prompts["summary"]
           /\ \A a, b \in AnalysisTypes : a # b => prompts[a] # prompts[b]
           /\ sent.messages[1].content = SystemPrefix \o sent.system_prompt

C5_Witness ==
    /\ completions = 1
    /\ sent.analysis_type = "other"
    /\ sent.system_prompt = prompts["summary"]
    /\ client_ret.exc = "none"

----------------------------------------------------------------------------
(* Properties of the extraction, under SpecExtract.  A property speaks of    *)
(* the document as parsed (soup), of what _clean_html makes of it, and of    *)
(* the fields extract_content stored.                                        *)

\* the GET was answered and the answer was parsed
Parsed ==
    /\ calls = 1
    /\ response.kind = "response"
    /\ response.status_code \notin 400..599

\* extract_content ran to its return statement
Extracted == Parsed /\ ret.exc = "none"

Doc == soup.nodes
Strings == {i \in 1..Len(Doc) : Doc[i].kind = "text"}
Elements == {i \in 1..Len(Doc) : Doc[i].kind = "tag"}
Within(i) == AncestorsOrSelf(Doc, i) \ {0}
Below(e) == {i \in 1..Len(Doc) : e \in Within(i) /\ i # e}
NonBlank(i) == ~IsBlankText(Doc[i].text)

Denylist ==
    {"script", "style", "noscript", "iframe", "ad", "img", "form", "nav",
     "aside", "link", "button", "figure", "input"}

Denylisted(i) == Doc[i].kind = "tag" /\ Doc[i].name \in Denylist
UnderDenylisted(i) == \E a \in Within(i) : Denylisted(a)

\* the nodes still in a tree
Live(tr) == Range(descendants(tr, 0))

\* the text of the strings in S, each trimmed, in document order, one a line
TextOf(S) ==
    LET ids == SortedSeq(S)
    IN  join(<<"\n">>, [k \in 1..Len(ids) |-> strip(Doc[ids[k]].text)])

\* the fields hold what the passes computed whenever the call returned
Stored(c) == Extracted => (website.content = c.text /\ tree = c.tree /\ ret.value = Some(c.text))

\* C6 as stated, for documents that have an element: no text of the content
\* comes from a denylisted element or from below one, and a document whose
\* elements are all denylisted yields empty content
C6_DenylistedAllEmpty ==
    (Extracted /\ Elements # {}) =>
        /\ \A i \in Live(tree) : ~UnderDenylisted(i)
        /\ (\A e \in Elements : Denylisted(e)) => website.content = <<>>

\* C6 amended: no text of the content comes from a denylisted element or from
\* below one, and a document whose elements are all denylisted yields only
\* the text that lies outside every element: empty content when that text is
\* missing or whitespace
C6_NoDenylistedText ==
    Parsed =>
        LET c == _clean_html(soup)
        IN  /\ Stored(c)
            /\ \A i \in Live(c.tree) : ~UnderDenylisted(i)
            /\ c.text = TextOf({i \in Strings : NonBlank(i) /\ ~UnderDenylisted(i)})
            /\ (\A e \in Elements : Denylisted(e))
                 => c.text = TextOf({i \in Strings : NonBlank(i) /\ Doc[i].parent = 0})

\* text two levels below a nav is gone while text outside it is kept
C6_Witness ==
    /\ Extracted
    /\ \E i \in Strings :
         /\ NonBlank(i)
         /\ UnderDenylisted(i)
         /\ ~Denylisted(Doc[i].parent)
         /\ Doc[i].parent # 0
    /\ website.content = <<>>

\* C7: after the two passes no element left in the tree has empty visible
\* text, the elements emptied by the removal of their descendants included
C7_NoEmptyElementLeft ==
    Parsed =>
        LET c == _clean_html(soup)
        IN  /\ Stored(c)
            /\ \A e \in Live(c.tree) \cap Elements :
                 /\ \E i \in Live(c.tree) \cap Strings :
                      e \in Within(i) /\ NonBlank(i)
                 /\ strip(get_text(c.tree, e, <<>>, FALSE)) # <<>>

\* an element whose only text was below a denylisted child is removed
C7_Witness ==
    /\ Extracted
    /\ \E e \in Elements :
         /\ ~UnderDenylisted(e)
         /\ \E i \in Below(e) \cap Strings : NonBlank(i)
         /\ \A i \in Below(e) \cap Strings : UnderDenylisted(i)
         /\ e \notin Live(tree)

IsLeafElement(e) == e \in Elements /\ Below(e) \cap Elements = {}

\* C8 as stated, for documents whose strings all lie inside elements: when
\* every leaf element has whitespace-only text the content is empty
C8_BlankLeavesEmpty ==
    ( /\ Extracted
      /\ \A i \in Strings : Doc[i].parent # 0
      /\ \A e \in Elements : IsLeafElement(e) => \A i \in Below(e) : ~NonBlank(i) )
        => website.content = <<>>

\* C8 amended: when every leaf element has whitespace-only text and no
\* string outside the leaf elements (in an element that has child elements,
\* or outside every element) has other than whitespace, the content is empty
C8_BlankStringsEmpty ==
    ( /\ Parsed
      /\ \A e \in Elements : IsLeafElement(e) => \A i \in Below(e) : ~NonBlank(i)
      /\ \A i \in Strings :
           (Doc[i].parent = 0 \/ ~IsLeafElement(Doc[i].parent)) => ~NonBlank(i) )
        => (_clean_html(soup).text = <<>> /\ Stored(_clean_html(soup)))

\* a whitespace-only leaf element inside another element
C8_Witness ==
    /\ Extracted
    /\ \E e \in Elements :
         /\ IsLeafElement(e)
         /\ Doc[e].parent # 0
         /\ Below(e) # {}
         /\ ~Denylisted(e)
    /\ \A i \in Strings : ~NonBlank(i)
    /\ website.content = <<>>

\* the first title element of the document, 0 when there is none
FirstTitle ==
    LET titles == {e \in Elements : Doc[e].name = "title"}
    IN  IF titles = {} THEN 0 ELSE CHOOSE e \in titles : \A f \in titles : e <= f

\* the text of an element: its strings, untrimmed, one after the other
RawText(e) ==
    LET ids == SortedSeq(Below(e) \cap Strings)
    IN  join(<<>>, [k \in 1..Len(ids) |-> Doc[ids[k]].text])

\* C9: a title element with non-empty text gives that text trimmed; no title
\* element, or one without text, gives "No Title", and extraction does not
\* fail
C9_TitleOrSentinel ==
    Parsed =>
        IF FirstTitle # 0 /\ RawText(FirstTitle) # <<>>
        THEN ret.exc = "none" /\ website.title = strip(RawText(FirstTitle))
        ELSE ret.exc = "none" /\ website.title = NoTitle

\* the first meta element named description, 0 when there is none
FirstDescription ==
    LET metas == {e \in Elements : /\ Doc[e].name = "meta"
                                   /\ Doc[e].attrs.name = Some(<<"description">>)}
    IN  IF metas = {} THEN 0 ELSE CHOOSE e \in metas : \A f \in metas : e <= f

\* C10 as stated: a description meta element with a non-empty content
\* attribute gives that value trimmed; every other case, an empty content
\* attribute included, gives "No Description"
C10_DescriptionOrSentinel ==
    Parsed =>
        /\ Extracted => website.description = _get_description(soup)
        /\ IF /\ FirstDescription # 0
              /\ Doc[FirstDescription].attrs.content \notin {None, Some(<<>>)}
           THEN _get_description(soup) = strip(Doc[FirstDescription].attrs.content[1])
           ELSE _get_description(soup) = NoDescription

\* C10 amended: a description meta element with a content attribute, empty
\* or not, gives that value trimmed (the empty string for an empty one); no
\* such element, or one without the attribute, gives "No Description"
C10_DescriptionOrSentinelIfAbsent ==
    Parsed =>
        /\ Extracted => website.description = _get_description(soup)
        /\ IF /\ FirstDescription # 0
              /\ Doc[FirstDescription].attrs.content # None
           THEN _get_description(soup) = strip(Doc[FirstDescription].attrs.content[1])
           ELSE _get_description(soup) = NoDescription

C10_Witness ==
    /\ Extracted
    /\ FirstDescription # 0
    /\ Doc[FirstDescription].attrs.content = Some(<<" ", "d", " ">>)
    /\ website.description = <<"d">>


----------------------------------------------------------------------------
(* Properties of main, under SpecMain *)

Exited == main_pc = "exited"

\* the API credential is missing from the environment
MissingCredential == ~truthy(env.OPENAI_API_KEY)

\* C11: when the API credential is missing, whatever the command line, main
\* prints the configuration error and ends with exit code 1, with no API
\* client constructed, no fetch and no completion call, and nothing raised
C11_MissingCredentialExitsOne ==
    (Exited /\ MissingCredential)
        => /\ main_ret = Returned(Some(1))
           /\ stderr = <<"Configuration Error">>
           /\ api_client = "unbound"
           /\ response = NoResponse
           /\ outcome = NoOutcome

\* the run ended on an interrupt from the keyboard
Interrupted ==
    \/ result.exc = "KeyboardInterrupt"
    \/ line = Raised("KeyboardInterrupt")

\* the one action of a one-action mode has given a non-empty result
ActionSucceeded ==
    /\ mode(args) \in {"websites", "url", "ask", "text"}
    /\ result.exc = "none"
    /\ truthy(result.value)

\* C12: in every mode, main's exit code is 1 when a fetch or completion of
\* the run failed, 0 when the run's action succeeded, 0 on an interrupt
C12_ExitCodeTellsFailure ==
    (Exited /\ api_client = "constructed")
        => /\ Interrupted => main_ret = Returned(Some(0))
           /\ (failed /\ ~Interrupted) => main_ret = Returned(Some(1))
           /\ (ActionSucceeded /\ ~failed) => main_ret = Returned(Some(0))


----------------------------------------------------------------------------
(* The pipeline of summarize_article_from_url, under Spec *)

\* the GET of the call gave a response that raise_for_status lets through
FetchSucceeded == response.kind = "response" /\ ~raises_for_status(response)

\* the GET of the call failed: a transport error or an HTTP error status
FetchFailed ==
    \/ response.kind = "RequestException"
    \/ response.kind = "response" /\ raises_for_status(response)

\* the completion call of the call failed
CompletionFailed ==
    outcome.kind \in {"no_content", "RateLimitError", "APIError", "IndexError"}

\* C13: a call of summarize_article_from_url issues one GET and at most one
\* completion call; the completion call is made only after a fetch that
\* succeeded and gave non-blank content; no stage runs twice; a failure of
\* the fetch, of the extraction or of the completion ends the call with the
\* failure result None, and no later stage runs
C13_OneShotPipeline ==
    request.op = "url"
        => /\ gets <= 1
           /\ completions <= 1
           /\ pc \in {"complete", "done", "idle"} => gets = 1
           /\ pc = "extract" => (gets = 0 /\ completions = 0)
           /\ pc = "complete" => completions = 0
           /\ (pc = "complete" \/ completions = 1)
                => (FetchSucceeded /\ ret.exc = "none" /\ ~blank(ret.value))
           /\ (Ended("url") /\ (FetchFailed \/ ret.exc = "AttributeError"
                                \/ (ret.exc = "none" /\ blank(ret.value))))
                => (result = Returned(None) /\ completions = 0)
           /\ (Ended("url") /\ ret.exc = "KeyboardInterrupt") => completions = 0
           /\ (Ended("url") /\ CompletionFailed) => result = Returned(None)

\* a call whose fetch failed has ended after its one GET, without a
\* completion call
C13_Witness ==
    /\ Ended("url")
    /\ FetchFailed
    /\ gets = 1
    /\ completions = 0
    /\ result = Returned(None)


----------------------------------------------------------------------------
(* Properties of interactive mode, under SpecMain *)

\* the words of a line that input() gave
Words(l) == split(l.value[1], Len(l.value[1]))

\* the command word of a line, in lower case
CommandWord(l) == lower(Words(l)[1])

CommandWords ==
    {<<"exit">>, <<"help">>, <<"summarize">>, <<"analyze">>, <<"ask">>,
     <<"websites">>}

\* an empty line, an unknown command, a command without its argument, or an
\* analyze command with a type that is not one of the four
BadLine(l) ==
    /\ l.exc = "none"
    /\ \/ Words(l) = <<>>
       \/ CommandWord(l) \notin CommandWords
       \/ CommandWord(l) \in {<<"summarize">>, <<"analyze">>, <<"ask">>}
            /\ Len(Words(l)) = 1
       \/ CommandWord(l) = <<"analyze">>
            /\ Len(Words(l)) >= 3
            /\ ~(Len(Words(l)) = 3 /\ Words(l)[3] \in {<<t>> : t \in AnalysisTypes})

\* the exit command
ExitLine(l) ==
    l.exc = "none" /\ Words(l) # <<>> /\ CommandWord(l) = <<"exit">>

InInteractiveMode == api_client = "constructed" /\ mode(args) = "interactive"

\* at the prompt no call is in progress: the command before has run to its end
PromptAfterCompletion ==
    (InInteractiveMode /\ main_pc = "prompt")
        => (pc = "idle" /\ request = NoRequest /\ result = Pending)

\* the loop has ended only on the exit command or on a keyboard interrupt
EndsOnExitOrInterrupt ==
    (InInteractiveMode /\ Exited)
        => \/ ExitLine(line)
           \/ line = Raised("KeyboardInterrupt")
           \/ result.exc = "KeyboardInterrupt"

\* a bad line read at the prompt starts no call and leaves the loop at the
\* prompt
BadLineReprompts ==
    (main_pc = "prompt" /\ BadLine(line'))
        => /\ main_pc' = "prompt"
           /\ pc' = "idle"
           /\ gets' = 0
           /\ completions' = 0
           /\ response' = NoResponse
           /\ outcome' = NoOutcome

\* a command whose call has returned without an interrupt, failed or not,
\* leaves the loop at the prompt
FailedCommandReprompts ==
    (main_pc = "command" /\ pc = "done" /\ result.exc # "KeyboardInterrupt")
        => main_pc' = "prompt"

\* an exception out of input() other than the interrupt leaves the loop at
\* the prompt
InputExceptionReprompts ==
    (main_pc = "prompt" /\ line'.exc \notin {"none", "pending", "KeyboardInterrupt"})
        => main_pc' = "prompt"

\* C14: in interactive mode a command runs to its end before the next line
\* is read; an empty line, an unknown command, a command without its
\* argument or an analyze command with an invalid type makes no fetch and no
\* completion call and goes back to the prompt; a failed command or an
\* exception does not end the loop, which ends only on the exit command or a
\* keyboard interrupt
C14_InteractiveLoop ==
    /\ [](PromptAfterCompletion /\ EndsOnExitOrInterrupt)
    /\ [][BadLineReprompts /\ FailedCommandReprompts
          /\ InputExceptionReprompts]_vars

\* the loop is back at the prompt after a bad line, a command before it
\* having failed
C14_Witness ==
    /\ InInteractiveMode
    /\ main_pc = "prompt"
    /\ BadLine(line)
    /\ Words(line) # <<>>
    /\ failed


----------------------------------------------------------------------------
(* Properties of a reused Website object, under SpecReuse *)

\* the step is an extract_content call
ExtractStep == calls' = calls + 1

\* the call that has just returned gave the empty string
ReturnedEmpty == ret = Returned(Some(<<>>))

====
